---- MODULE Spec2Model ----
(***************************************************************************)
(* Parcel delivery tracker: the courier normalizer (tracker.py,            *)
(* normalize_courier_code), the tracking client's submit flow              *)
(* (process_tracking_request) and the two interaction shells (CLI main,    *)
(* web POST /track).                                                       *)
(*                                                                         *)
(* A Python str is a sequence of one-character strings; None is the        *)
(* one-element sequence <<"None">>, which no str equals.                   *)
(***************************************************************************)
EXTENDS Naturals, Sequences, FiniteSets

\* ------------------------------------------------------------------ text

Lowers == <<"a","b","c","d","e","f","g","h","i","j","k","l","m",
            "n","o","p","q","r","s","t","u","v","w","x","y","z">>

Uppers == <<"A","B","C","D","E","F","G","H","I","J","K","L","M",
            "N","O","P","Q","R","S","T","U","V","W","X","Y","Z">>

Digits == <<"0","1","2","3","4","5","6","7","8","9">>

\* The characters of the model in code point order (str comparison order).
CharOrder == <<" ", "-", ".", "/">> \o Digits \o Uppers \o <<"_">> \o Lowers

Range(s) == {s[i] : i \in 1..Len(s)}

Ord == [c \in Range(CharOrder) |-> CHOOSE i \in 1..Len(CharOrder) : CharOrder[i] = c]

LowerChar == [c \in Range(CharOrder) |->
                IF c \in Range(Uppers)
                THEN Lowers[CHOOSE i \in 1..Len(Uppers) : Uppers[i] = c]
                ELSE c]

None == <<"None">>

Min(a, b) == IF a < b THEN a ELSE b

\* str.lower()
lower(s) == [i \in 1..Len(s) |-> LowerChar[s[i]]]

RECURSIVE lstrip(_, _)
lstrip(s, chars) ==
    IF s # <<>> /\ Head(s) \in chars THEN lstrip(Tail(s), chars) ELSE s

RECURSIVE rstrip(_, _)
rstrip(s, chars) ==
    IF s # <<>> /\ s[Len(s)] \in chars
    THEN rstrip(SubSeq(s, 1, Len(s) - 1), chars) ELSE s

\* str.strip(chars); str.strip() removes whitespace
strip_chars(s, chars) == rstrip(lstrip(s, chars), chars)

strip(s) == strip_chars(s, {" "})

\* s.startswith(prefix)
startswith(s, prefix) ==
    Len(prefix) <= Len(s) /\ SubSeq(s, 1, Len(prefix)) = prefix

\* a < b on str: lexicographic by code point
RECURSIVE StrLess(_, _)
StrLess(a, b) ==
    IF b = <<>> THEN FALSE
    ELSE IF a = <<>> THEN TRUE
    ELSE IF Head(a) = Head(b) THEN StrLess(Tail(a), Tail(b))
    ELSE Ord[Head(a)] < Ord[Head(b)]

\* sorted(set): the elements of S in ascending order
RECURSIVE sorted(_)
sorted(S) ==
    IF S = {} THEN <<>>
    ELSE LET m == CHOOSE x \in S : \A y \in S \ {x} : StrLess(x, y)
         IN <<m>> \o sorted(S \ {m})

\* [a-z0-9]
IsAlnum(c) == c \in Range(Lowers) \cup Range(Digits)

\* re.sub(<class>+, "-", s): every maximal run of characters of the class
\* becomes one hyphen
RECURSIVE re_sub_runs(_, _)
re_sub_runs(s, class) ==
    IF s = <<>> THEN <<>>
    ELSE IF Head(s) \notin class THEN <<Head(s)>> \o re_sub_runs(Tail(s), class)
    ELSE IF Len(s) > 1 /\ s[2] \in class THEN re_sub_runs(Tail(s), class)
    ELSE <<"-">> \o re_sub_runs(Tail(s), class)

\* [^a-z0-9]
NotAlnum == {c \in Range(CharOrder) : ~IsAlnum(c)}

\* canonicalization that forgets to lowercase
canonicalize_keeps_case(raw_value) ==
    LET lowered2 == re_sub_runs(strip(raw_value), NotAlnum)
    IN strip_chars(re_sub_runs(lowered2, {"-"}), {"-"})

canonicalize_courier_input(raw_value) ==
    LET lowered  == lower(strip(raw_value))
        lowered2 == re_sub_runs(lowered, NotAlnum)
    IN strip_chars(re_sub_runs(lowered2, {"-"}), {"-"})

\* ---------------------------------------------------------- alias table

s_cainiao == <<"c","a","i","n","i","a","o">>

s_cainiao_global == <<"c","a","i","n","i","a","o","-","g","l","o","b","a","l">>

s_cainiaoglobal == <<"c","a","i","n","i","a","o","g","l","o","b","a","l">>

s_imile == <<"i","m","i","l","e">>

s_imili == <<"i","m","i","l","i">>

s_imilie == <<"i","m","i","l","i","e">>

s_i_mile == <<"i","-","m","i","l","e">>

s_i_sp_mile == <<"i"," ","m","i","l","e">>

s_australia_post == <<"a","u","s","t","r","a","l","i","a","-","p","o","s","t">>

s_australian_post == <<"a","u","s","t","r","a","l","i","a","n","-","p","o","s","t">>

s_auspost == <<"a","u","s","p","o","s","t">>

s_australia_sp_post == <<"a","u","s","t","r","a","l","i","a"," ","p","o","s","t">>

s_australian_sp_post == <<"a","u","s","t","r","a","l","i","a","n"," ","p","o","s","t">>

AliasPairs == <<
    <<s_cainiao, s_cainiao>>,
    <<s_cainiao_global, s_cainiao>>,
    <<s_cainiaoglobal, s_cainiao>>,
    <<s_imile, s_imile>>,
    <<s_imili, s_imile>>,
    <<s_imilie, s_imile>>,
    <<s_i_mile, s_imile>>,
    <<s_i_sp_mile, s_imile>>,
    <<s_australia_post, s_australia_post>>,
    <<s_australian_post, s_australia_post>>,
    <<s_auspost, s_australia_post>>,
    <<s_australia_sp_post, s_australia_post>>,
    <<s_australian_sp_post, s_australia_post>> >>

COURIER_ALIASES ==
    [k \in {AliasPairs[i][1] : i \in 1..Len(AliasPairs)} |->
        AliasPairs[CHOOSE i \in 1..Len(AliasPairs) : AliasPairs[i][1] = k][2]]

\* the always-trusted couriers, in the order the suggestion loop visits them
CommonCouriers == <<s_cainiao, s_imile, s_australia_post>>

\* {"cainiao", "imile", "australia-post"}
TrustedCouriers == Range(CommonCouriers)

\* ------------------------------------------------- difflib (fuzzy match)

\* length of the common run of a[i..ahi] and b[j..bhi] starting at i, j
RECURSIVE CommonLen(_, _, _, _, _, _)
CommonLen(a, i, ahi, b, j, bhi) ==
    IF i > ahi \/ j > bhi THEN 0
    ELSE IF a[i] # b[j] THEN 0
    ELSE 1 + CommonLen(a, i + 1, ahi, b, j + 1, bhi)

\* SequenceMatcher.find_longest_match without junk: the longest block common
\* to a[alo..ahi] and b[blo..bhi]; of those the one starting earliest in a,
\* and of those the one starting earliest in b.  <<i, j, k>>, k = 0 if none.
find_longest_match(a, alo, ahi, b, blo, bhi) ==
    LET blocks == {<<i, j, CommonLen(a, i, ahi, b, j, bhi)>> :
                      i \in alo..ahi, j \in blo..bhi}
        hits   == {m \in blocks : m[3] > 0}
        Better(m, n) == \/ m[3] > n[3]
                        \/ m[3] = n[3] /\ m[1] < n[1]
                        \/ m[3] = n[3] /\ m[1] = n[1] /\ m[2] < n[2]
    IN IF hits = {} THEN <<alo, blo, 0>>
       ELSE CHOOSE m \in hits : \A n \in hits \ {m} : Better(m, n)

\* sum of the sizes of SequenceMatcher.get_matching_blocks()
RECURSIVE matches(_, _, _, _, _, _)
matches(a, alo, ahi, b, blo, bhi) ==
    IF alo > ahi \/ blo > bhi THEN 0
    ELSE LET m == find_longest_match(a, alo, ahi, b, blo, bhi)
         IN IF m[3] = 0 THEN 0
            ELSE m[3]
                 + matches(a, alo, m[1] - 1, b, blo, m[2] - 1)
                 + matches(a, m[1] + m[3], ahi, b, m[2] + m[3], bhi)

\* SequenceMatcher(a, b).ratio() as the fraction <<numerator, denominator>>:
\* 2.0 * matches / (len(a) + len(b)), and 1.0 when both are empty
ratio(a, b) ==
    IF Len(a) + Len(b) = 0 THEN <<1, 1>>
    ELSE <<2 * matches(a, 1, Len(a), b, 1, Len(b)), Len(a) + Len(b)>>

\* cutoff=0.55
CutoffNum == 55

CutoffDen == 100

\* n=5
MaxMatches == 5

\* r >= cutoff
AtLeastCutoff(r) == r[1] * CutoffDen >= CutoffNum * r[2]

\* heapq.nlargest(n, result) on (score, x) pairs, best first
RECURSIVE nlargest(_, _, _)
nlargest(n, S, word) ==
    IF n = 0 \/ S = {} THEN <<>>
    ELSE LET Gt(x, y) ==
                 LET rx == ratio(x, word)
                     ry == ratio(y, word)
                 IN \/ rx[1] * ry[2] > ry[1] * rx[2]
                    \/ rx[1] * ry[2] = ry[1] * rx[2] /\ StrLess(y, x)
             best == CHOOSE x \in S : \A y \in S \ {x} : Gt(x, y)
         IN <<best>> \o nlargest(n - 1, S \ {best}, word)

\* difflib.get_close_matches(word, possibilities, n, cutoff): SequenceMatcher
\* has seq2 = word and seq1 = each possibility
get_close_matches(word, possibilities) ==
    nlargest(MaxMatches, {x \in possibilities : AtLeastCutoff(ratio(x, word))}, word)

\* ------------------------------------------------------------ normalizer

\* normalized_input[:3]
PrefixLen == 3

\* alias acceptance without the always-trusted allowlist
AliasAccepted_live_only(alias, valid_couriers) == alias \in valid_couriers

\* lines 107-110 / 114-117: the mapped alias is live or always trusted
AliasAccepted(alias, valid_couriers) ==
    alias \in valid_couriers \/ alias \in TrustedCouriers

\* line 130
ForceCommon(common, normalized_input) ==
    \/ startswith(common, SubSeq(normalized_input, 1, Min(PrefixLen, Len(normalized_input))))
    \/ normalized_input \in DOMAIN COURIER_ALIASES

\* forced inclusion that does not look at the live set
should_force_unlisted(common, suggestions, normalized_input, valid_couriers) ==
    /\ common \notin Range(suggestions)
    /\ ForceCommon(common, normalized_input)

\* lines 129-130: the key courier is appended
should_force(common, suggestions, normalized_input, valid_couriers) ==
    /\ common \in valid_couriers
    /\ common \notin Range(suggestions)
    /\ ForceCommon(common, normalized_input)

\* lines 128-131: the loop over the key couriers, from the i-th on
RECURSIVE force_include(_, _, _, _)
force_include(suggestions, i, normalized_input, valid_couriers) ==
    IF i > Len(CommonCouriers) THEN suggestions
    ELSE LET common == CommonCouriers[i]
             next == IF should_force(common, suggestions, normalized_input, valid_couriers)
                     THEN Append(suggestions, common)
                     ELSE suggestions
         IN force_include(next, i + 1, normalized_input, valid_couriers)

\* the fuzzy matches as difflib ranks them, neither deduplicated nor sorted
fuzzy_suggestions_ranked(normalized_input, valid_couriers) ==
    get_close_matches(normalized_input, valid_couriers)

\* line 125
fuzzy_suggestions(normalized_input, valid_couriers) ==
    sorted(Range(get_close_matches(normalized_input, valid_couriers)))

\* direct acceptance checked against the allowlist instead of the live set
direct_match_trusted_only(normalized_input, clean, valid_couriers) ==
    IF normalized_input \in TrustedCouriers THEN normalized_input
    ELSE IF clean \in TrustedCouriers THEN clean
    ELSE None

\* lines 119-123: the input is itself a live code (None if it is not)
direct_match(normalized_input, clean, valid_couriers) ==
    IF normalized_input \in valid_couriers THEN normalized_input
    ELSE IF clean \in valid_couriers THEN clean
    ELSE None

\* the returned pair (code or None, suggestions)
normalize_courier_code(raw_value, valid_couriers) ==
    LET clean == lower(strip(raw_value))
        normalized_input == canonicalize_courier_input(clean)
        direct == direct_match(normalized_input, clean, valid_couriers)
    IN IF clean = <<>> THEN <<None, <<>> >>
       ELSE IF /\ clean \in DOMAIN COURIER_ALIASES
               /\ AliasAccepted(COURIER_ALIASES[clean], valid_couriers)
            THEN <<COURIER_ALIASES[clean], <<>> >>
       ELSE IF /\ normalized_input \in DOMAIN COURIER_ALIASES
               /\ AliasAccepted(COURIER_ALIASES[normalized_input], valid_couriers)
            THEN <<COURIER_ALIASES[normalized_input], <<>> >>
       ELSE IF direct # None THEN <<direct, <<>> >>
       ELSE <<None, force_include(fuzzy_suggestions(normalized_input, valid_couriers),
                                  1, normalized_input, valid_couriers)>>

\* ------------------------------------------------------- the remote API

\* a JSON object as a function from its keys; {} is the empty one
EmptyDict == [k \in {} |-> {}]

\* dict.get(key, default)
Get(d, key, default) == IF key \in DOMAIN d THEN d[key] ELSE default

\* meta.get("code") == 4003
DuplicateCode == 4003

\* what urlopen does with one request (lines 71-82): a JSON body, an
\* HTTPError with a JSON or a non-JSON body, or a URLError
OkReply(body)    == [kind |-> "ok", is_dict |-> TRUE, body |-> body]

OkNonDictReply   == [kind |-> "ok", is_dict |-> FALSE, body |-> EmptyDict]

HttpError(body)  == [kind |-> "http_error", is_dict |-> TRUE, body |-> body]

HttpErrorNonDict == [kind |-> "http_error", is_dict |-> FALSE, body |-> EmptyDict]

HttpErrorText    == [kind |-> "http_error_text", is_dict |-> FALSE, body |-> EmptyDict]

UrlError         == [kind |-> "url_error", is_dict |-> FALSE, body |-> EmptyDict]

\* api_request: the parsed body returned, or RuntimeError(payload) raised
api_request(reply) ==
    CASE reply.kind = "ok" ->
            [raised |-> FALSE, is_dict |-> reply.is_dict, value |-> reply.body]
      [] reply.kind = "http_error" ->
            [raised |-> TRUE, is_dict |-> reply.is_dict, value |-> reply.body]
      [] reply.kind = "http_error_text" ->
            [raised |-> TRUE, is_dict |-> TRUE,
             value |-> [meta |-> [message |-> "error_body"]]]
      [] reply.kind = "url_error" ->
            [raised |-> TRUE, is_dict |-> TRUE,
             value |-> [meta |-> [message |-> "Network error"]]]

\* truthiness of a str or None
Truthy(v) == v # <<>> /\ v # None

\* truthiness of a dict
TruthyDict(d) == DOMAIN d # {}

\* fetch_valid_couriers on the parsed listing
fetch_valid_couriers(result) ==
    LET couriers == Get(Get(result, "data", EmptyDict), "couriers", {})
    IN {lower(strip(courier["slug"])) :
           courier \in {c \in couriers : Truthy(Get(c, "slug", None))}}

\* the requests of the three client operations
ListRequest == [method |-> "GET", path |-> "/couriers", id |-> <<>>]

CreateRequest == [method |-> "POST", path |-> "/trackings", id |-> <<>>]

FetchRequest(tracking_id) == [method |-> "GET", path |-> "/trackings/{id}", id |-> tracking_id]

s_NA == <<"N","/","A">>

s_Existing == <<"E","x","i","s","t","i","n","g">>

\* lines 183-189 and 194-200: the ok outcome built from a tracking record
\* with the three defaults
ok_outcome(tracking, d_slug, d_number, d_tag) ==
    [ok |-> TRUE,
     courier_code |-> Get(tracking, "slug", d_slug),
     tracking_number |-> Get(tracking, "tracking_number", d_number),
     tag |-> Get(tracking, "tag", d_tag),
     raw |-> tracking]

\* lines 183-189: the outcome of the duplicate path
duplicate_outcome(detailed_tracking, data, courier_code, number) ==
    ok_outcome(detailed_tracking,
               Get(data, "slug", courier_code),
               Get(data, "tracking_number", number),
               Get(data, "tag", s_Existing))

\* a successful create read without unwrapping the nested tracking record
created_outcome_flat(result, courier_code, number) ==
    ok_outcome(Get(result, "data", EmptyDict), courier_code, number, s_NA)

\* lines 192-200: the outcome of a successful create
created_outcome(result, courier_code, number) ==
    LET data == Get(result, "data", EmptyDict)
        tracking == Get(data, "tracking", data)
    IN ok_outcome(tracking, courier_code, number, s_NA)

\* the duplicate signature without the check of the embedded record
is_duplicate_code_only(e) ==
    LET meta == IF e.is_dict THEN Get(e.value, "meta", EmptyDict) ELSE EmptyDict
    IN "code" \in DOMAIN meta /\ meta["code"] = DuplicateCode

\* the duplicate signature without the check of the error code
is_duplicate_any_code(e) ==
    e.is_dict /\ TruthyDict(Get(e.value, "data", EmptyDict))

\* lines 169-172: the error payload matches the duplicate signature
is_duplicate(e) ==
    LET details == e.value
        meta == IF e.is_dict THEN Get(details, "meta", EmptyDict) ELSE EmptyDict
        data == IF e.is_dict THEN Get(details, "data", EmptyDict) ELSE EmptyDict
    IN /\ "code" \in DOMAIN meta
       /\ meta["code"] = DuplicateCode
       /\ TruthyDict(data)

\* ------------------------------------------------- inputs of the flow

s_I_Mile == <<"I","-","M","i","l","e">>

s_IMILE == <<"I","M","I","L","E">>

s_unknown == <<"t","o","t","a","l","l","y","-","u","n","k","n","o","w","n","-","x","y","z">>

s_dhl == <<"d","h","l">>

s_dhx == <<"d","h","x">>

s_DHL_padded == <<" ","D","H","L"," ">>

s_key == <<"k","1">>

s_number == <<"1","2">>

s_dup_slug == <<"d","u","p","-","s","l","u","g">>

s_dup_number == <<"d","u","p","-","1","2">>

s_dup_tag == <<"P","e","n","d","i","n","g">>

s_dup_id == <<"t","1">>

s_new_slug == <<"n","e","w","-","s","l","u","g">>

s_new_number == <<"n","e","w","-","1","2">>

s_new_tag == <<"I","n","T","r","a","n","s","i","t">>

s_found_slug == <<"f","o","u","n","d","-","s","l","u","g">>

s_found_number == <<"f","o","u","n","d","-","1","2">>

s_found_tag == <<"D","e","l","i","v","e","r","e","d">>

\* a value with leading blanks, as a user may type it
Padded(v) == <<" ">> \o v

\* what the user types at the three prompts / in the three form fields
KeyInputs == {<<>>, <<" ">>, s_key, Padded(s_key)}

NumberInputs == {<<>>, <<" ">>, s_number, Padded(s_number)}

CourierInputs == {<<>>, <<" ">>, <<"-">>, s_imili, s_I_Mile, s_dhl, s_dhx, s_unknown}

\* the courier entries the listing may hold: with a slug (as the service
\* spells it), with a blank or an empty slug, or without one
ListingEntries ==
    {[slug |-> s_imile], [slug |-> s_DHL_padded], [slug |-> s_cainiao],
     [slug |-> <<" ">>], [slug |-> <<>>], [name |-> s_dhl]}

\* the model's bound on the number of entries of one listing
MaxListing == 2

\* a tracking record: any of slug, tracking_number, tag, with the values v
Records(v) == {[k \in K |-> v[k]] : K \in SUBSET {"slug", "tracking_number", "tag"}}

\* r with an id
WithId(r, id) == [k \in DOMAIN r \cup {"id"} |-> IF k = "id" THEN id ELSE r[k]]

DupValues == [slug |-> s_dup_slug, tracking_number |-> s_dup_number, tag |-> s_dup_tag]

NewValues == [slug |-> s_new_slug, tracking_number |-> s_new_number, tag |-> s_new_tag]

FoundValues == [slug |-> s_found_slug, tracking_number |-> s_found_number, tag |-> s_found_tag]

\* the record embedded in an error body: no id, an empty id or an id
ErrorRecords ==
    Records(DupValues)
    \cup {WithId(r, <<>>) : r \in Records(DupValues)}
    \cup {WithId(r, s_dup_id) : r \in Records(DupValues)}

\* the meta of a structured error: none, the duplicate code, another code
ErrorMetas == {[code |-> DuplicateCode], [code |-> DuplicateCode + 1]}

\* the JSON error bodies of the service
ErrorBodies ==
    {EmptyDict}
    \cup {[meta |-> m] : m \in ErrorMetas}
    \cup {[data |-> r] : r \in ErrorRecords \ {EmptyDict}}
    \cup {[meta |-> m, data |-> r] : m \in ErrorMetas, r \in ErrorRecords}

\* every way a request can fail
ErrorReplies ==
    {HttpErrorNonDict, HttpErrorText, UrlError} \cup {HttpError(b) : b \in ErrorBodies}

\* the bodies of a successful response carrying tracking records with values v
TrackingBodies(v) ==
    {EmptyDict}
    \cup {[data |-> r] : r \in Records(v)}
    \cup {[data |-> [tracking |-> r]] : r \in Records(v)}

ListReplies ==
    {OkReply(EmptyDict), OkReply([data |-> EmptyDict])}
    \cup {OkReply([data |-> [couriers |-> S]]) :
             S \in {T \in SUBSET ListingEntries : Cardinality(T) <= MaxListing}}
    \cup {HttpErrorNonDict, HttpErrorText, UrlError,
          HttpError([meta |-> [code |-> DuplicateCode],
                     data |-> WithId(DupValues, s_dup_id)])}

CreateReplies == {OkReply(b) : b \in TrackingBodies(NewValues)} \cup ErrorReplies

FetchReplies ==
    {OkNonDictReply} \cup {OkReply(b) : b \in TrackingBodies(FoundValues)}
    \cup {HttpErrorText, UrlError, HttpError([meta |-> [code |-> DuplicateCode + 1]])}

\* ------------------------------------------------------------ the state

VARIABLES
    shell,            \* "cli" (tracker.main) or "web" (Handler.do_POST)
    api_key,          \* the three inputs, as read and then as trimmed
    tracking_number,
    courier_input,
    pc,               \* where the run is
    net,              \* the requests issued so far, in order
    replies,          \* what the network answered to each of them
    valid_couriers,   \* process_tracking_request's locals
    norm,             \* (courier_code, suggestions)
    data,             \* <<data>> once the duplicate path is taken
    outcome,          \* <<outcome>> once process_tracking_request returned
    raised,           \* <<payload>> once it raised RuntimeError(payload)
    reported,         \* what the shell told the user
    exit_code,        \* main's return value (0 or 1)
    canon_args,       \* the arguments of the canonicalize calls
    canon             \* and their results

vars == <<shell, api_key, tracking_number, courier_input, pc, net, replies,
          valid_couriers, norm, data, outcome, raised, reported, exit_code,
          canon_args, canon>>

NoNorm == <<None, <<>> >>

Init ==
    /\ shell \in {"cli", "web"}
    /\ api_key \in KeyInputs
    /\ tracking_number \in NumberInputs
    /\ courier_input \in CourierInputs
    /\ pc = "main"
    /\ net = <<>>
    /\ replies = <<>>
    /\ valid_couriers = {}
    /\ norm = NoNorm
    /\ data = <<>>
    /\ outcome = <<>>
    /\ raised = <<>>
    /\ reported = "nothing"
    /\ exit_code = 0
    /\ canon_args = <<>>
    /\ canon = <<>>

\* tracker.main, lines 231-241: the prompts and the two checks
CliMain ==
    /\ pc = "main" /\ shell = "cli"
    /\ api_key' = strip(api_key)
    /\ IF api_key' = <<>>
       THEN /\ reported' = "API key is required."
            /\ exit_code' = 1
            /\ pc' = "done"
            /\ UNCHANGED tracking_number
       ELSE /\ tracking_number' = strip(tracking_number)
            /\ IF tracking_number' = <<>>
               THEN /\ reported' = "Tracking number is required."
                    /\ exit_code' = 1
                    /\ pc' = "done"
               ELSE /\ pc' = "list"
                    /\ UNCHANGED <<reported, exit_code>>
    /\ UNCHANGED <<shell, courier_input, net, replies, valid_couriers, norm, data,
                   outcome, raised, canon_args, canon>>

\* Handler.do_POST, lines 86-99: the three fields and the check
WebPost ==
    /\ pc = "main" /\ shell = "web"
    /\ api_key' = strip(api_key)
    /\ tracking_number' = strip(tracking_number)
    /\ courier_input' = strip(courier_input)
    /\ IF api_key' = <<>> \/ tracking_number' = <<>> \/ courier_input' = <<>>
       THEN /\ reported' = "Please fill in API key, tracking number, and courier code."
            /\ pc' = "done"
       ELSE /\ pc' = "list"
            /\ UNCHANGED reported
    /\ UNCHANGED <<shell, exit_code, net, replies, valid_couriers, norm, data,
                   outcome, raised, canon_args, canon>>

\* process_tracking_request, lines 157-164: the listing and the normalization
ListCouriers ==
    /\ pc = "list"
    /\ \E reply \in ListReplies :
         LET r == api_request(reply)
             valid == fetch_valid_couriers(r.value)
             result == normalize_courier_code(courier_input, valid)
         IN /\ net' = Append(net, ListRequest)
            /\ replies' = Append(replies, reply)
            /\ IF r.raised
               THEN /\ raised' = <<r>>
                    /\ pc' = "render"
                    /\ UNCHANGED <<valid_couriers, norm, outcome>>
               ELSE /\ valid_couriers' = valid
                    /\ norm' = result
                    /\ UNCHANGED raised
                    /\ IF ~Truthy(result[1])
                       THEN /\ outcome' = <<[ok |-> FALSE,
                                             error |-> "The value of courier_code is invalid.",
                                             suggestions |-> result[2]]>>
                            /\ pc' = "render"
                       ELSE /\ pc' = "create"
                            /\ UNCHANGED outcome
    /\ UNCHANGED <<shell, api_key, tracking_number, courier_input, data, reported,
                   exit_code, canon_args, canon>>

\* lines 166-175 and 183-200: the create call and what follows it
CreateTracking ==
    /\ pc = "create"
    /\ \E reply \in CreateReplies :
         LET r == api_request(reply)
             d == Get(r.value, "data", EmptyDict)
         IN /\ net' = Append(net, CreateRequest)
            /\ replies' = Append(replies, reply)
            /\ IF ~r.raised
               THEN /\ outcome' = <<created_outcome(r.value, norm[1], tracking_number)>>
                    /\ pc' = "render"
                    /\ UNCHANGED <<raised, data>>
               ELSE IF is_duplicate(r)
               THEN /\ data' = <<d>>
                    /\ UNCHANGED raised
                    /\ IF Truthy(Get(d, "id", None))
                       THEN /\ pc' = "refetch"
                            /\ UNCHANGED outcome
                       ELSE /\ outcome' = <<duplicate_outcome(d, d, norm[1], tracking_number)>>
                            /\ pc' = "render"
               ELSE /\ raised' = <<r>>
                    /\ pc' = "render"
                    /\ UNCHANGED <<outcome, data>>
    /\ UNCHANGED <<shell, api_key, tracking_number, courier_input, valid_couriers,
                   norm, reported, exit_code, canon_args, canon>>

\* the re-fetch without the fallback: its failure is raised
RefetchTracking_raises ==
    /\ pc = "refetch"
    /\ \E reply \in FetchReplies :
         LET r == api_request(reply)
             lookup_data == IF r.is_dict THEN Get(r.value, "data", EmptyDict) ELSE EmptyDict
             detailed_tracking == Get(lookup_data, "tracking", lookup_data)
         IN /\ net' = Append(net, FetchRequest(data[1]["id"]))
            /\ replies' = Append(replies, reply)
            /\ pc' = "render"
            /\ IF r.raised
               THEN raised' = <<r>> /\ UNCHANGED outcome
               ELSE /\ outcome' = <<duplicate_outcome(detailed_tracking, data[1], norm[1],
                                                      tracking_number)>>
                    /\ UNCHANGED raised
    /\ UNCHANGED <<shell, api_key, tracking_number, courier_input, valid_couriers,
                   norm, data, reported, exit_code, canon_args, canon>>

\* lines 176-189: the re-fetch of the duplicate and the fallback
RefetchTracking ==
    /\ pc = "refetch"
    /\ \E reply \in FetchReplies :
         LET r == api_request(reply)
             lookup_data == IF r.is_dict THEN Get(r.value, "data", EmptyDict) ELSE EmptyDict
             detailed_tracking == IF r.raised THEN data[1]
                                  ELSE Get(lookup_data, "tracking", lookup_data)
         IN /\ net' = Append(net, FetchRequest(data[1]["id"]))
            /\ replies' = Append(replies, reply)
            /\ outcome' = <<duplicate_outcome(detailed_tracking, data[1], norm[1],
                                              tracking_number)>>
            /\ pc' = "render"
    /\ UNCHANGED <<shell, api_key, tracking_number, courier_input, valid_couriers,
                   norm, data, raised, reported, exit_code, canon_args, canon>>

\* main, lines 244-264, and do_POST, lines 103-147: the result is rendered
Render ==
    /\ pc = "render"
    /\ pc' = "done"
    /\ IF raised # <<>>
       THEN /\ reported' = IF shell = "cli" THEN "Could not complete tracking request."
                           ELSE "API error"
            /\ exit_code' = IF shell = "cli" THEN 1 ELSE exit_code
       ELSE IF ~outcome[1].ok
       THEN /\ reported' = "The value of courier_code is invalid."
            /\ exit_code' = IF shell = "cli" THEN 1 ELSE exit_code
       ELSE /\ reported' = "Tracking created/fetched successfully."
            /\ UNCHANGED exit_code
    /\ UNCHANGED <<shell, api_key, tracking_number, courier_input, net, replies,
                   valid_couriers, norm, data, outcome, raised, canon_args, canon>>

Next ==
    \/ CliMain
    \/ WebPost
    \/ ListCouriers
    \/ CreateTracking
    \/ RefetchTracking
    \/ Render

Spec == Init /\ [][Next]_vars

\* ------------------------------------- the normalizer as a pure function

s_a_b == <<"a","_","b">>

s_A_dot_B == <<"A",".","B">>

s_dhl_nl == <<"d","h","l","-","n","l">>

s_dhl_es == <<"d","h","l","-","e","s">>

s_dhl_pl == <<"d","h","l","-","p","l">>

s_dhl_uk == <<"d","h","l","-","u","k">>

s_dhl_de == <<"d","h","l","-","d","e">>

s_dhl_xx == <<"d","h","l","-","x","x">>

s_xyz_express == <<"x","y","z","-","e","x","p","r","e","s","s">>

s_cai_xyz_express == <<"c","a","i","-","x","y","z","-","e","x","p","r","e","s","s">>

s_Imili_padded == <<" ","I","m","i","l","i"," ">>

s_caniao == <<"c","a","n","i","a","o">>

s_australia == <<"a","u","s","t","r","a","l","i","a">>

s_hyphens == <<"-","-">>

s_cainiao_dd_global == <<"C","a","i","n","i","a","o","-","-","G","l","o","b","a","l">>

\* the slugs a live courier set is drawn from: the always-trusted ones, a
\* family of close slugs, a slug that is also an alias key, and one that is
\* not in canonical form
SlugUniverse ==
    {s_cainiao, s_imile, s_australia_post, s_imili, s_a_b, s_dhl, s_dhl_nl,
     s_dhl_es, s_dhl_pl, s_dhl_uk, s_dhl_de, s_xyz_express}

\* the model's bound on the size of a drawn courier set
MaxValid == 2

ValidSets ==
    {V \in SUBSET SlugUniverse : Cardinality(V) <= MaxValid} \cup {SlugUniverse}

\* the model's bound on the length of the exhaustively drawn inputs
MaxLen == 2

ShortAlphabet == {"c", "a", "i", "-"}

RECURSIVE Strings(_, _)
Strings(alphabet, n) ==
    IF n = 0 THEN {<<>>}
    ELSE LET shorter == Strings(alphabet, n - 1)
         IN shorter \cup {Append(t, c) : t \in shorter, c \in alphabet}

NormInputs ==
    DOMAIN COURIER_ALIASES
    \cup SlugUniverse
    \cup {canonicalize_courier_input(c) : c \in SlugUniverse}
    \cup {s_I_Mile, s_IMILE, s_Imili_padded, s_unknown, s_dhx, s_dhl_xx,
          s_cai_xyz_express, s_A_dot_B, s_caniao, s_australia, s_hyphens,
          s_DHL_padded, s_cainiao_dd_global, <<" ">>}
    \cup Strings(ShortAlphabet, MaxLen)

CanonInputs ==
    {s_I_Mile, s_i_sp_mile, s_IMILE, s_i_mile, s_imile, s_Imili_padded,
     s_a_b, s_A_dot_B, s_hyphens, s_cainiao_dd_global, s_australia_sp_post,
     s_DHL_padded, <<>>}

Idle ==
    /\ shell = "none"
    /\ api_key = <<>>
    /\ tracking_number = <<>>
    /\ net = <<>>
    /\ replies = <<>>
    /\ data = <<>>
    /\ outcome = <<>>
    /\ raised = <<>>
    /\ reported = "nothing"
    /\ exit_code = 0

NormInit ==
    /\ Idle
    /\ pc = "normalize"
    /\ courier_input \in NormInputs
    /\ valid_couriers \in ValidSets
    /\ norm = NoNorm
    /\ canon_args = <<>>
    /\ canon = <<>>

\* one call normalize_courier_code(raw_value, valid_couriers)
NormalizeCall ==
    /\ pc = "normalize"
    /\ norm' = normalize_courier_code(courier_input, valid_couriers)
    /\ pc' = "normalized"
    /\ UNCHANGED <<shell, api_key, tracking_number, courier_input, net, replies,
                   valid_couriers, data, outcome, raised, reported, exit_code,
                   canon_args, canon>>

SpecNorm == NormInit /\ [][NormalizeCall]_vars

CanonInit ==
    /\ Idle
    /\ pc = "canonicalize"
    /\ courier_input = <<>>
    /\ valid_couriers = {}
    /\ norm = NoNorm
    /\ canon_args \in CanonInputs \X CanonInputs
    /\ canon = <<>>

\* canonicalize_courier_input applied to each argument
CanonicalizeCall ==
    /\ pc = "canonicalize"
    /\ canon' = [i \in 1..Len(canon_args) |-> canonicalize_courier_input(canon_args[i])]
    /\ pc' = "canonicalized"
    /\ UNCHANGED <<shell, api_key, tracking_number, courier_input, net, replies,
                   valid_couriers, norm, data, outcome, raised, reported, exit_code,
                   canon_args>>

SpecCanon == CanonInit /\ [][CanonicalizeCall]_vars

\* ------------------------------------------------ claims: the normalizer

\* C1: every alias key a of COURIER_ALIASES with value c normalizes to
\* (c, []) against the valid set {c}, and against the empty valid set when c
\* is always trusted; keys with a space or a hyphen included.
C1_AliasResolves ==
    (pc = "normalized" /\ courier_input \in DOMAIN COURIER_ALIASES) =>
        LET c == COURIER_ALIASES[courier_input]
        IN /\ valid_couriers = {c} => norm = <<c, <<>> >>
           /\ (valid_couriers = {} /\ c \in {s_cainiao, s_imile, s_australia_post})
                  => norm = <<c, <<>> >>

C1_Witness ==
    /\ pc = "normalized"
    /\ courier_input = s_australian_sp_post
    /\ valid_couriers = {}
    /\ norm = <<s_australia_post, <<>> >>

\* C5 as stated: the canonical forms of "I-Mile", "i mile" and "IMILE" are
\* pairwise equal.
C5_PairwiseEqual ==
    (/\ pc = "canonicalized"
     /\ canon_args[1] \in {s_I_Mile, s_i_sp_mile, s_IMILE}
     /\ canon_args[2] \in {s_I_Mile, s_i_sp_mile, s_IMILE})
        => canon[1] = canon[2]

\* C5 as amended: "I-Mile" and "i mile" have the same canonical form,
\* "i-mile"; the canonical form of "IMILE" is "imile", without a hyphen.
C5_PunctuationCollapses ==
    pc = "canonicalized" =>
        \A i \in 1..Len(canon_args) :
            /\ canon_args[i] \in {s_I_Mile, s_i_sp_mile} => canon[i] = s_i_mile
            /\ canon_args[i] = s_IMILE => canon[i] = s_imile

C5_Witness ==
    /\ pc = "canonicalized"
    /\ canon_args = <<s_I_Mile, s_i_sp_mile>>
    /\ canon[1] = canon[2]

\* C6 as stated: for every code c of the valid set, normalizing the
\* canonical form of c returns (c, []), alias keys included.
C6_IdempotentOnValid ==
    pc = "normalized" =>
        \A c \in valid_couriers :
            courier_input = canonicalize_courier_input(c) => norm = <<c, <<>> >>

\* C6 as amended: for every code c of the valid set that is its own
\* canonical form and that the alias table does not map to another code,
\* normalizing the canonical form of c returns (c, []).
C6_IdempotentOnCanonicalValid ==
    pc = "normalized" =>
        \A c \in valid_couriers :
            (/\ courier_input = canonicalize_courier_input(c)
             /\ canonicalize_courier_input(c) = c
             /\ c \in DOMAIN COURIER_ALIASES => COURIER_ALIASES[c] = c)
                => norm = <<c, <<>> >>

C6_Witness ==
    /\ pc = "normalized"
    /\ courier_input = s_dhl_nl
    /\ s_dhl_nl \in valid_couriers
    /\ norm = <<s_dhl_nl, <<>> >>

NoDuplicates(q) == \A i, j \in 1..Len(q) : i # j => q[i] # q[j]

Ascending(q) == \A i \in 1..Len(q) - 1 : StrLess(q[i], q[i + 1])

\* q lists key couriers in the order cainiao, imile, australia-post
InCommonOrder(q) ==
    /\ Range(q) \subseteq Range(CommonCouriers)
    /\ \A i \in 1..Len(q) - 1 :
          \E m, n \in 1..Len(CommonCouriers) :
              m < n /\ CommonCouriers[m] = q[i] /\ CommonCouriers[n] = q[i + 1]

\* C7 as stated: a suggestions list returned with None has no duplicate, is
\* in ascending order as a whole and has at most 5 + 3 elements.
C7_SortedWhole ==
    (pc = "normalized" /\ norm[1] = None) =>
        /\ NoDuplicates(norm[2])
        /\ Ascending(norm[2])
        /\ Len(norm[2]) <= MaxMatches + Len(CommonCouriers)

\* C7 as amended: a suggestions list returned with None has no duplicate and
\* at most 5 + 3 elements; it is at most 5 fuzzy matches in ascending order
\* followed by the forced key couriers in the order cainiao, imile,
\* australia-post (so the list as a whole need not be sorted).
C7_SortedThenForced ==
    (pc = "normalized" /\ norm[1] = None) =>
        /\ NoDuplicates(norm[2])
        /\ Len(norm[2]) <= MaxMatches + Len(CommonCouriers)
        /\ \E k \in 0..Min(MaxMatches, Len(norm[2])) :
              /\ Ascending(SubSeq(norm[2], 1, k))
              /\ InCommonOrder(SubSeq(norm[2], k + 1, Len(norm[2])))

C7_Witness ==
    /\ pc = "normalized"
    /\ norm[1] = None
    /\ Len(norm[2]) >= 2
    /\ ~Ascending(norm[2])
    /\ s_australia_post \in Range(norm[2])

\* C10: a returned code is a member of the valid set or always trusted and
\* comes with no suggestions; every suggestion, forced ones included, is a
\* member of the valid set.
C10_ConfinedToKnown ==
    pc = "normalized" =>
        /\ norm[1] # None =>
              /\ norm[1] \in valid_couriers \cup {s_cainiao, s_imile, s_australia_post}
              /\ norm[2] = <<>>
        /\ Range(norm[2]) \subseteq valid_couriers

C10_Witness ==
    /\ pc = "normalized"
    /\ courier_input = s_cai_xyz_express
    /\ s_imile \notin valid_couriers
    /\ norm = <<None, <<s_xyz_express, s_cainiao>> >>

\* ------------------------------------------------ claims: the submit flow

\* the reply is a failure carrying the duplicate signature on the wire:
\* a JSON error object with meta.code 4003 and a non-empty data record
DuplicateReply(reply) ==
    /\ reply.kind = "http_error"
    /\ reply.is_dict
    /\ "meta" \in DOMAIN reply.body
    /\ "code" \in DOMAIN reply.body.meta
    /\ reply.body.meta.code = 4003
    /\ "data" \in DOMAIN reply.body
    /\ DOMAIN reply.body.data # {}

\* the record has a (non-empty) id
HasId(record) == "id" \in DOMAIN record /\ record.id # <<>>

Returned == pc \in {"render", "done"}

\* C2: a create failure with the duplicate signature is not raised: the
\* request ends with ok = true; with an id in the record the re-fetch is
\* issued once, with that id; and if the re-fetch fails, the outcome's
\* courier_code, tracking_number, tag and raw are those of the embedded
\* record.
C2_DuplicateIsSuccess ==
    (Len(replies) >= 2 /\ DuplicateReply(replies[2])) =>
        LET record == replies[2].body.data
        IN /\ raised = <<>>
           /\ Returned => (outcome # <<>> /\ outcome[1].ok)
           /\ (Returned /\ HasId(record)) =>
                  /\ Len(net) = 3
                  /\ net[3] = [method |-> "GET", path |-> "/trackings/{id}", id |-> record.id]
           /\ ~HasId(record) => Len(net) = 2
           /\ (Len(replies) = 3 /\ replies[3].kind # "ok") =>
                  /\ outcome[1].raw = record
                  /\ "slug" \in DOMAIN record => outcome[1].courier_code = record.slug
                  /\ "tracking_number" \in DOMAIN record
                        => outcome[1].tracking_number = record.tracking_number
                  /\ "tag" \in DOMAIN record => outcome[1].tag = record.tag

C2_Witness ==
    /\ pc = "done"
    /\ Len(replies) = 3
    /\ DuplicateReply(replies[2])
    /\ replies[3].kind = "url_error"
    /\ outcome[1].ok
    /\ outcome[1].courier_code = s_dup_slug
    /\ outcome[1].tracking_number = s_dup_number
    /\ outcome[1].tag = s_dup_tag

\* C3: a failure of the listing call, or of the create call without the
\* duplicate signature, ends the flow: the error api_request raised is
\* raised to the caller as it is, no outcome is returned and no request
\* follows it.
C3_OtherErrorsPropagate ==
    \A i \in 1..Len(replies) :
        (/\ replies[i].kind # "ok"
         /\ i = 1 \/ (i = 2 /\ ~DuplicateReply(replies[2])))
            => /\ Returned
               /\ raised = <<api_request(replies[i])>>
               /\ outcome = <<>>
               /\ Len(net) = i

C3_Witness ==
    /\ pc = "done"
    /\ Len(replies) = 2
    /\ replies[2] = HttpError([meta |-> [code |-> 4003], data |-> EmptyDict])
    /\ raised # <<>>
    /\ Len(net) = 2

\* a required field is empty after trimming
MissingField ==
    strip(api_key) = <<>> \/ strip(tracking_number) = <<>> \/ strip(courier_input) = <<>>

\* C4: in both shells, a run with a missing required field (API key,
\* tracking number or courier code empty after trimming) reports the error
\* and makes no network request.
C4_NoRequestOnMissingField ==
    MissingField =>
        /\ net = <<>>
        /\ pc = "done" => reported # "nothing"

\* the tracking record of a successful create response
CreatedRecord(body) ==
    LET d == IF "data" \in DOMAIN body THEN body.data ELSE EmptyDict
    IN IF "tracking" \in DOMAIN d THEN d.tracking ELSE d

\* C8: a successful create returns ok = true with courier_code,
\* tracking_number and tag from the response's tracking record, each omitted
\* field defaulting to the normalized courier code, the caller's tracking
\* number and "N/A"; input "imili" with "imile" valid and no slug in the
\* response yields courier_code "imile".
C8_CreatedOutcome ==
    (Len(replies) >= 2 /\ replies[2].kind = "ok") =>
        LET t == CreatedRecord(replies[2].body)
        IN /\ Returned /\ raised = <<>> /\ outcome # <<>> /\ outcome[1].ok
           /\ outcome[1].courier_code =
                  IF "slug" \in DOMAIN t THEN t.slug ELSE norm[1]
           /\ outcome[1].tracking_number =
                  IF "tracking_number" \in DOMAIN t THEN t.tracking_number
                  ELSE tracking_number
           /\ outcome[1].tag = IF "tag" \in DOMAIN t THEN t.tag ELSE <<"N", "/", "A">>
           /\ (/\ courier_input = s_imili
               /\ s_imile \in valid_couriers
               /\ "slug" \notin DOMAIN t) => outcome[1].courier_code = s_imile

C8_Witness ==
    /\ pc = "done"
    /\ courier_input = s_imili
    /\ s_imile \in valid_couriers
    /\ Len(replies) = 2
    /\ replies[2] = OkReply([data |-> [tracking |-> [tracking_number |-> s_new_number]]])
    /\ outcome[1].courier_code = s_imile
    /\ outcome[1].tracking_number = s_new_number
    /\ outcome[1].tag = s_NA

\* the requests are GET /couriers, POST /trackings, GET /trackings/{id}, in
\* that order and each at most once; the create follows a fetched listing
\* and an accepted code; a rejected input gets ok = false with the
\* suggestions and no create; the re-fetch follows a duplicate with an id
C9_Order ==
    /\ Len(net) <= 3
    /\ Len(net) >= 1 => net[1] = [method |-> "GET", path |-> "/couriers", id |-> <<>>]
    /\ Len(net) >= 2 =>
          /\ net[2] = [method |-> "POST", path |-> "/trackings", id |-> <<>>]
          /\ replies[1].kind = "ok"
          /\ norm[1] # None /\ norm[1] # <<>>
    /\ (Len(net) >= 1 /\ replies[1].kind = "ok" /\ norm[1] \in {None, <<>>}) =>
          /\ Returned
          /\ Len(net) = 1
          /\ outcome # <<>> /\ ~outcome[1].ok /\ outcome[1].suggestions = norm[2]
    /\ Len(net) = 3 =>
          /\ DuplicateReply(replies[2])
          /\ HasId(replies[2].body.data)
          /\ net[3] = [method |-> "GET", path |-> "/trackings/{id}",
                       id |-> replies[2].body.data.id]

\* the steps left to a run at each position
Rank(p) ==
    CASE p = "main" -> 5
      [] p = "list" -> 4
      [] p = "create" -> 3
      [] p = "refetch" -> 2
      [] p = "render" -> 1
      [] OTHER -> 0

\* C9: every run issues its requests in the fixed order, each at most once
\* and under the stated conditions, and then terminates: every step brings
\* the run closer to its end, so nothing is retried.
C9_OrderedAndTerminates == []C9_Order /\ [][Rank(pc') < Rank(pc)]_vars

C9_Witness ==
    /\ pc = "done"
    /\ Len(net) = 3
    /\ net[3].id = s_dup_id
    /\ outcome[1].ok

====
